---------------------------- MODULE Spec2Model ----------------------------
(***************************************************************************)
(* Model of logo-formatter/formatter.py: one linear procedure, main(),     *)
(* that turns one source image into fourteen PNG files, icon.ico and, on   *)
(* macOS, icon.icns.  The state is the file system the script touches      *)
(* (source image, output directory, temporary staging directory), the      *)
(* position of main() in its program text, its local variables and what    *)
(* it printed.  Every I/O step has a failing outcome (an exception that    *)
(* nobody catches, so main() ends with status 1), every print included.    *)
(* Either standard stream can be closed (sys.stdout or sys.stderr is None):*)
(* a print to a closed sys.stdout does nothing, a print to a closed        *)
(* sys.stderr goes to sys.stdout.  stdout and stderr record the lines the  *)
(* stream objects accepted, which says nothing about what the device       *)
(* behind them received.  When main() is over the interpreter flushes the  *)
(* streams, and a flush that fails makes the exit status 120.              *)
(* Several runs of the script follow one another on the same file system.  *)
(***************************************************************************)
EXTENDS Integers, Sequences, FiniteSets, TLC

\* Number of consecutive runs of the script that are explored.
MaxRuns == 2

\* The packaging tool's exit status is drawn from 0..MaxRc.
MaxRc == 2

----------------------------------------------------------------------------
\* Program constants.

\* The table with "128x128@2x.png" misspelt as "128x128.png": a dict literal
\* keeps one entry per key, at the first position and with the last value.
PNG_OUTPUTS_collision ==
    << [name |-> "32x32.png",             size |-> <<32, 32>>],
       [name |-> "128x128.png",           size |-> <<256, 256>>],
       [name |-> "icon.png",              size |-> <<512, 512>>],
       [name |-> "Square30x30Logo.png",   size |-> <<30, 30>>],
       [name |-> "Square44x44Logo.png",   size |-> <<44, 44>>],
       [name |-> "Square71x71Logo.png",   size |-> <<71, 71>>],
       [name |-> "Square89x89Logo.png",   size |-> <<89, 89>>],
       [name |-> "Square107x107Logo.png", size |-> <<107, 107>>],
       [name |-> "Square142x142Logo.png", size |-> <<142, 142>>],
       [name |-> "Square150x150Logo.png", size |-> <<150, 150>>],
       [name |-> "Square284x284Logo.png", size |-> <<284, 284>>],
       [name |-> "Square310x310Logo.png", size |-> <<310, 310>>],
       [name |-> "StoreLogo.png",         size |-> <<50, 50>>] >>

\* formatter.py:25-40, in insertion order (the order the for loop visits).
PNG_OUTPUTS ==
    << [name |-> "32x32.png",             size |-> <<32, 32>>],
       [name |-> "128x128.png",           size |-> <<128, 128>>],
       [name |-> "128x128@2x.png",        size |-> <<256, 256>>],
       [name |-> "icon.png",              size |-> <<512, 512>>],
       [name |-> "Square30x30Logo.png",   size |-> <<30, 30>>],
       [name |-> "Square44x44Logo.png",   size |-> <<44, 44>>],
       [name |-> "Square71x71Logo.png",   size |-> <<71, 71>>],
       [name |-> "Square89x89Logo.png",   size |-> <<89, 89>>],
       [name |-> "Square107x107Logo.png", size |-> <<107, 107>>],
       [name |-> "Square142x142Logo.png", size |-> <<142, 142>>],
       [name |-> "Square150x150Logo.png", size |-> <<150, 150>>],
       [name |-> "Square284x284Logo.png", size |-> <<284, 284>>],
       [name |-> "Square310x310Logo.png", size |-> <<310, 310>>],
       [name |-> "StoreLogo.png",         size |-> <<50, 50>>] >>

\* formatter.py:72
ico_sizes == << <<16, 16>>, <<32, 32>>, <<48, 48>>, <<256, 256>> >>

\* formatter.py:79-86
icns_sizes ==
    << <<16, 16>>, <<32, 32>>, <<64, 64>>, <<128, 128>>, <<256, 256>>, <<512, 512>> >>

\* formatter.py:73 and 98: the two container file names.
ico_name == "icon.ico"
icns_name == "icon.icns"

----------------------------------------------------------------------------
\* The inputs that are explored.

\* sys.platform values.
Platforms == {"darwin", "linux", "win32"}

\* Pixel dimensions of the source image: large, small and not square.
SrcSizes == { <<1024, 1024>>, <<100, 100>>, <<300, 200>> }

\* Color modes of the source image as Pillow names them.
SrcModes == {"RGB", "RGBA", "LA", "P"}

\* Pillow's modes that carry an alpha channel.
HasAlpha(mode) == mode \in {"RGBA", "LA", "PA", "RGBa", "La"}

\* A file that was in the output directory before the first run.
Stale == [fmt |-> "STALE", size |-> <<1, 1>>, mode |-> "?", frames |-> {}]

\* The name of a file of the output directory the script never writes.
foreign_name == "notes.txt"

\* The output directory before the first run: empty, or holding old icons.
NoFiles == [n \in {} |-> Stale]
OldFiles == [n \in {"32x32.png", ico_name, icns_name, foreign_name} |-> Stale]

----------------------------------------------------------------------------
\* Pure helpers.

Range(s) == { s[k] : k \in DOMAIN s }

Abs(n) == IF n < 0 THEN -n ELSE n

\* Image.convert(mode): a new image of that mode; conv counts the
\* conversions the image went through.
convert(im, mode) == [im EXCEPT !.mode = mode, !.conv = @ + 1]

\* formatter.py:48-52
ensure_rgba_lacking_alpha(im) ==
    IF ~HasAlpha(im.mode) THEN convert(im, "RGBA") ELSE im

ensure_rgba(im) ==
    IF im.mode # "RGBA" THEN convert(im, "RGBA") ELSE im

\* formatter.py:43-45: Image.resize gives exactly the requested size (no
\* aspect-ratio preservation) and keeps the mode.
resize_image(im, size) == [im EXCEPT !.size = size]

\* What Image.save(path, "PNG") leaves on disk.
PngFile(im) == [fmt |-> "PNG", size |-> im.size, mode |-> im.mode, frames |-> {}]

\* Image.thumbnail(size) as the ICO encoder uses it to make a frame from an
\* image that is at least as large as the frame in both directions: the
\* aspect ratio is kept, and the free side is the floor or the ceiling of
\* the exact value, whichever is closer in aspect (the floor on a tie),
\* and at least 1.
Thumbnail(w, h, size) ==
    LET x == size[1]
        y == size[2]
    IN  IF x >= w /\ y >= h THEN <<w, h>>
        ELSE IF x * h >= y * w
        THEN LET f == (y * w) \div h
                 c == IF (y * w) % h = 0 THEN f ELSE f + 1
                 best == IF Abs(w * y - f * h) <= Abs(w * y - c * h) THEN f ELSE c
             IN  << IF best < 1 THEN 1 ELSE best, y >>
        ELSE LET f == (x * h) \div w
                 c == IF (x * h) % w = 0 THEN f ELSE f + 1
                 best == IF f = 0 THEN f
                         ELSE IF Abs(w * f - x * h) * c <= Abs(w * c - x * h) * f
                         THEN f ELSE c
             IN  << x, IF best < 1 THEN 1 ELSE best >>

\* The frames Image.save(path, format="ICO", sizes=...) encodes: Pillow
\* ignores every requested size that is larger than the image or larger
\* than 256, and scales the image down to each remaining size.
IcoFrames(im, sizes) ==
    { Thumbnail(im.size[1], im.size[2], s) :
        s \in { t \in Range(sizes) : /\ t[1] <= im.size[1]
                                     /\ t[2] <= im.size[2]
                                     /\ t[1] <= 256
                                     /\ t[2] <= 256 } }

\* What img.save(ico_path, format="ICO", sizes=ico_sizes) leaves on disk.
IcoFile(im, sizes) ==
    [fmt |-> "ICO", size |-> <<0, 0>>, mode |-> im.mode, frames |-> IcoFrames(im, sizes)]

\* f"icon_{w}x{h}.png" and f"icon_{w}x{h}@2x.png"
IconsetName(w, h) == "icon_" \o ToString(w) \o "x" \o ToString(h) \o ".png"
IconsetName2x(w, h) == "icon_" \o ToString(w) \o "x" \o ToString(h) \o "@2x.png"

\* formatter.py:94
Wants2xBelow256(w) == w < 256

Wants2x(w) == w <= 256

\* Writing a file replaces whatever was stored under that name.
WriteFileNoClobber(files, name, rec) ==
    LET target == IF name \in DOMAIN files THEN name \o ".1" ELSE name
    IN  [n \in DOMAIN files \cup {target} |-> IF n = target THEN rec ELSE files[n]]

WriteFile(files, name, rec) ==
    [n \in DOMAIN files \cup {name} |-> IF n = name THEN rec ELSE files[n]]

----------------------------------------------------------------------------
\* State.

VARIABLES
    platform,       \* sys.platform
    pillow,         \* PIL can be imported
    stdoutOpen,     \* sys.stdout is a stream (not None)
    stderrOpen,     \* sys.stderr is a stream (not None)
    srcExists,      \* SOURCE_IMAGE.exists()
    srcSize,        \* pixel dimensions of the source image
    srcMode,        \* color mode of the source image
    outDirExists,   \* OUTPUT_DIR exists
    outFiles,       \* the files of OUTPUT_DIR: name -> content
    pc,             \* where main() is
    img,            \* main's local img
    pngIdx,         \* position of the for loop over PNG_OUTPUTS
    icnsIdx,        \* position of the for loop over icns_sizes
    tmpExists,      \* the TemporaryDirectory exists
    iconsetExists,  \* tmpdir/icon.iconset exists
    iconset,        \* the files of the iconset: name -> content
    stdout,         \* the lines sys.stdout accepted in this run
    stderr,         \* the lines sys.stderr accepted in this run
    mainStatus,     \* the status the script's code ends with: 0 when main()
                    \* returns, 1 for sys.exit(1) and for an uncaught
                    \* exception; -1 while it runs
    flushed,        \* the interpreter's final flush reported no failure
    exitStatus,     \* the process's exit status, -1 until it has exited
    error,          \* the exception that ended or is ending this run
    written,        \* names written into OUTPUT_DIR by this run, in order
    iconutilRc,     \* exit status of iconutil in this run, -1 if not invoked
    run,            \* number of the current run
    prevOut,        \* OUTPUT_DIR as the previous run left it, if it succeeded
    iconutilCalls,  \* invocations of iconutil over all runs
    tmpdirsCreated  \* temporary directories created over all runs

envVars == <<platform, pillow, stdoutOpen, stderrOpen, srcExists, srcSize, srcMode>>
tmpVars == <<tmpExists, iconsetExists, iconset>>
loopVars == <<pngIdx, icnsIdx>>
\* What only the end of a process and the start of the next one change.
runVars == <<run, prevOut, flushed, exitStatus>>
vars == <<platform, pillow, stdoutOpen, stderrOpen, srcExists, srcSize, srcMode,
          outDirExists, outFiles, pc, img, pngIdx, icnsIdx, tmpExists,
          iconsetExists, iconset, stdout, stderr, flushed, mainStatus, exitStatus,
          error, written, iconutilRc, run, prevOut, iconutilCalls, tmpdirsCreated>>

NoImage == [mode |-> "none", size |-> <<0, 0>>, conv |-> 0]
NoError == [kind |-> "none", returncode |-> 0, step |-> "none", idx |-> 0]
NoPrev == [ok |-> FALSE, files |-> NoFiles]

\* An exception: what it is, the exit status it carries (CalledProcessError
\* only) and the step that raised it.
Exc(kind, rc, step, idx) == [kind |-> kind, returncode |-> rc, step |-> step, idx |-> idx]

\* An exception raised outside the with block: nobody catches it, the
\* interpreter prints the traceback and goes on to shut down with status 1.
Raise(e) ==
    /\ error' = e
    /\ mainStatus' = 1
    /\ pc' = "finalize"

\* An exception raised inside the with block: the context manager's exit
\* runs first.
RaiseInWith(e) ==
    /\ error' = e
    /\ pc' = "with_exit"
    /\ UNCHANGED mainStatus

Init ==
    /\ platform \in Platforms
    /\ pillow \in BOOLEAN
    /\ stdoutOpen \in BOOLEAN
    /\ stderrOpen \in BOOLEAN
    /\ srcExists \in BOOLEAN
    /\ srcSize \in SrcSizes
    /\ srcMode \in SrcModes
    /\ \/ outDirExists = FALSE /\ outFiles = NoFiles
       \/ outDirExists = TRUE /\ outFiles = OldFiles
    /\ pc = "import"
    /\ img = NoImage
    /\ pngIdx = 1
    /\ icnsIdx = 1
    /\ tmpExists = FALSE
    /\ iconsetExists = FALSE
    /\ iconset = NoFiles
    /\ stdout = <<>>
    /\ stderr = <<>>
    /\ mainStatus = -1
    /\ flushed = FALSE
    /\ exitStatus = -1
    /\ error = NoError
    /\ written = <<>>
    /\ iconutilRc = -1
    /\ run = 1
    /\ prevOut = NoPrev
    /\ iconutilCalls = 0
    /\ tmpdirsCreated = 0

----------------------------------------------------------------------------
\* main(), step by step.

\* print(line): sys.stdout accepts the line, and a closed sys.stdout
\* (None) makes print return without doing anything.
Printed(line) == IF stdoutOpen THEN Append(stdout, line) ELSE stdout

\* The outcomes of a print to sys.stdout: it returns (TRUE) or raises
\* (the write-through or the flush of a full buffer fails: device full,
\* reader gone).  Nothing can raise when sys.stdout is closed.
PrintOutcomes == IF stdoutOpen THEN BOOLEAN ELSE {TRUE}

\* The outcomes of a step that saves a file and then prints its line: the
\* save raises, the save succeeds and the print raises, or both succeed.
SaveOutcomes ==
    IF stdoutOpen THEN {"save_fails", "print_fails", "ok"} ELSE {"save_fails", "ok"}

\* print(line, file=sys.stderr): a closed sys.stderr (None) makes print
\* fall back on sys.stdout, and with both closed it does nothing.
ErrPrintOutcomes == IF stderrOpen \/ stdoutOpen THEN BOOLEAN ELSE {TRUE}
ErrPrintedStderr(line) == IF stderrOpen THEN Append(stderr, line) ELSE stderr
ErrPrintedStdout(line) == IF stderrOpen THEN stdout ELSE Printed(line)

\* formatter.py:13-17: without Pillow the script says so and exits with
\* status 1 before main() is entered.
ImportPillow ==
    /\ pc = "import"
    /\ IF pillow
       THEN /\ pc' = "start"
            /\ UNCHANGED <<stdout, stderr, mainStatus, error>>
       ELSE \E printed \in ErrPrintOutcomes :
              IF printed
              THEN /\ stderr' = ErrPrintedStderr("Install Pillow: pip install Pillow")
                   /\ stdout' = ErrPrintedStdout("Install Pillow: pip install Pillow")
                   /\ mainStatus' = 1
                   /\ pc' = "finalize"
                   /\ UNCHANGED error
              ELSE /\ Raise(Exc("OSError", 0, "import_print", 0))
                   /\ UNCHANGED <<stdout, stderr>>
    /\ UNCHANGED <<envVars, outDirExists, outFiles, img, loopVars, tmpVars,
                   written, iconutilRc, runVars, iconutilCalls, tmpdirsCreated>>

\* The check with a plain return in place of sys.exit(1).
CheckSourceReturns ==
    /\ pc = "start"
    /\ \E answered \in BOOLEAN :
         IF ~answered
         THEN /\ Raise(Exc("OSError", 0, "exists", 0))
              /\ UNCHANGED <<stdout, stderr>>
         ELSE IF ~srcExists
         THEN \E printed \in ErrPrintOutcomes :
                IF printed
                THEN /\ stderr' = ErrPrintedStderr("Source image not found")
                     /\ stdout' = ErrPrintedStdout("Source image not found")
                     /\ mainStatus' = 0
                     /\ pc' = "finalize"
                     /\ UNCHANGED error
                ELSE /\ Raise(Exc("OSError", 0, "check_print", 0))
                     /\ UNCHANGED <<stdout, stderr>>
         ELSE /\ pc' = "mkdir"
              /\ UNCHANGED <<stdout, stderr, mainStatus, error>>
    /\ UNCHANGED <<envVars, outDirExists, outFiles, img, loopVars, tmpVars,
                   written, iconutilRc, runVars, iconutilCalls, tmpdirsCreated>>

\* formatter.py:56-58: SOURCE_IMAGE.exists() answers or raises (a
\* directory of the path that may not be searched: PermissionError); on
\* "no" the script prints the message and calls sys.exit(1).
CheckSource ==
    /\ pc = "start"
    /\ \E answered \in BOOLEAN :
         IF ~answered
         THEN /\ Raise(Exc("OSError", 0, "exists", 0))
              /\ UNCHANGED <<stdout, stderr>>
         ELSE IF ~srcExists
         THEN \E printed \in ErrPrintOutcomes :
                IF printed
                THEN /\ stderr' = ErrPrintedStderr("Source image not found")
                     /\ stdout' = ErrPrintedStdout("Source image not found")
                     /\ mainStatus' = 1
                     /\ pc' = "finalize"
                     /\ UNCHANGED error
                ELSE /\ Raise(Exc("OSError", 0, "check_print", 0))
                     /\ UNCHANGED <<stdout, stderr>>
         ELSE /\ pc' = "mkdir"
              /\ UNCHANGED <<stdout, stderr, mainStatus, error>>
    /\ UNCHANGED <<envVars, outDirExists, outFiles, img, loopVars, tmpVars,
                   written, iconutilRc, runVars, iconutilCalls, tmpdirsCreated>>

\* formatter.py:60: with exist_ok an existing directory is accepted, but
\* the call can fail whether or not the directory exists (no permission
\* on the parent, a file in the way).
MakeOutputDir ==
    /\ pc = "mkdir"
    /\ \E ok \in BOOLEAN :
         IF ok
         THEN /\ outDirExists' = TRUE
              /\ pc' = "open"
              /\ UNCHANGED <<error, mainStatus>>
         ELSE /\ Raise(Exc("OSError", 0, "mkdir", 0))
              /\ UNCHANGED outDirExists
    /\ UNCHANGED <<envVars, outFiles, img, loopVars, tmpVars, stdout, stderr,
                   written, iconutilRc, runVars, iconutilCalls, tmpdirsCreated>>

\* formatter.py:61: a missing file or one Pillow cannot decode raises.
OpenImage ==
    /\ pc = "open"
    /\ \E ok \in IF srcExists THEN BOOLEAN ELSE {FALSE} :
         IF ok
         THEN /\ img' = [mode |-> srcMode, size |-> srcSize, conv |-> 0]
              /\ pc' = "normalize"
              /\ UNCHANGED <<error, mainStatus>>
         ELSE /\ Raise(Exc("OSError", 0, "open", 0))
              /\ UNCHANGED img
    /\ UNCHANGED <<envVars, outDirExists, outFiles, loopVars, tmpVars, stdout, stderr,
                   written, iconutilRc, runVars, iconutilCalls, tmpdirsCreated>>

\* formatter.py:62
NormalizeImage ==
    /\ pc = "normalize"
    /\ img' = ensure_rgba(img)
    /\ pc' = "png"
    /\ UNCHANGED <<envVars, outDirExists, outFiles, loopVars, tmpVars, stdout, stderr,
                   mainStatus, error, written, iconutilRc, runVars, iconutilCalls,
                   tmpdirsCreated>>

\* formatter.py:65-69: one iteration of the loop, or leaving it.
WritePng ==
    /\ pc = "png"
    /\ IF pngIdx > Len(PNG_OUTPUTS)
       THEN /\ pc' = "ico"
            /\ UNCHANGED <<outFiles, written, stdout, pngIdx, error, mainStatus>>
       ELSE \E outcome \in SaveOutcomes :
              LET name == PNG_OUTPUTS[pngIdx].name
                  resized == resize_image(img, PNG_OUTPUTS[pngIdx].size)
              IN  IF outcome = "save_fails"
                  THEN /\ Raise(Exc("OSError", 0, "png", pngIdx))
                       /\ UNCHANGED <<outFiles, written, stdout, pngIdx>>
                  ELSE /\ outFiles' = WriteFile(outFiles, name, PngFile(resized))
                       /\ written' = Append(written, name)
                       /\ IF outcome = "ok"
                          THEN /\ stdout' = Printed("Wrote " \o name)
                               /\ pngIdx' = pngIdx + 1
                               /\ pc' = "png"
                               /\ UNCHANGED <<error, mainStatus>>
                          ELSE /\ Raise(Exc("OSError", 0, "png_print", pngIdx))
                               /\ UNCHANGED <<stdout, pngIdx>>
    /\ UNCHANGED <<envVars, outDirExists, img, icnsIdx, tmpVars, stderr,
                   iconutilRc, runVars, iconutilCalls, tmpdirsCreated>>

\* formatter.py:72-75
WriteIco ==
    /\ pc = "ico"
    /\ \E outcome \in SaveOutcomes :
         IF outcome = "save_fails"
         THEN /\ Raise(Exc("OSError", 0, "ico", 0))
              /\ UNCHANGED <<outFiles, written, stdout>>
         ELSE /\ outFiles' = WriteFile(outFiles, ico_name, IcoFile(img, ico_sizes))
              /\ written' = Append(written, ico_name)
              /\ IF outcome = "ok"
                 THEN /\ stdout' = Printed("Wrote " \o ico_name)
                      /\ pc' = "platform"
                      /\ UNCHANGED <<error, mainStatus>>
                 ELSE /\ Raise(Exc("OSError", 0, "ico_print", 0))
                      /\ UNCHANGED stdout
    /\ UNCHANGED <<envVars, outDirExists, img, loopVars, tmpVars, stderr,
                   iconutilRc, runVars, iconutilCalls, tmpdirsCreated>>

\* The branch taken on every platform but Windows.
PlatformBranchNotWindows ==
    /\ pc = "platform"
    /\ IF platform # "win32"
       THEN /\ pc' = "tmpdir"
            /\ UNCHANGED <<stdout, error, mainStatus>>
       ELSE \E printed \in PrintOutcomes :
              IF printed
              THEN /\ stdout' = Printed("Skipping icon.icns")
                   /\ pc' = "done"
                   /\ UNCHANGED <<error, mainStatus>>
              ELSE /\ Raise(Exc("OSError", 0, "skip_print", 0))
                   /\ UNCHANGED stdout
    /\ UNCHANGED <<envVars, outDirExists, outFiles, img, loopVars, tmpVars, stderr,
                   written, iconutilRc, runVars, iconutilCalls, tmpdirsCreated>>

\* formatter.py:78 and 102-103
PlatformBranch ==
    /\ pc = "platform"
    /\ IF platform = "darwin"
       THEN /\ pc' = "tmpdir"
            /\ UNCHANGED <<stdout, error, mainStatus>>
       ELSE \E printed \in PrintOutcomes :
              IF printed
              THEN /\ stdout' = Printed("Skipping icon.icns")
                   /\ pc' = "done"
                   /\ UNCHANGED <<error, mainStatus>>
              ELSE /\ Raise(Exc("OSError", 0, "skip_print", 0))
                   /\ UNCHANGED stdout
    /\ UNCHANGED <<envVars, outDirExists, outFiles, img, loopVars, tmpVars, stderr,
                   written, iconutilRc, runVars, iconutilCalls, tmpdirsCreated>>

\* formatter.py:87: entering the with block creates the directory.
MakeTmpdir ==
    /\ pc = "tmpdir"
    /\ \E ok \in BOOLEAN :
         IF ok
         THEN /\ tmpExists' = TRUE
              /\ tmpdirsCreated' = tmpdirsCreated + 1
              /\ pc' = "iconset_mkdir"
              /\ UNCHANGED <<error, mainStatus>>
         ELSE /\ Raise(Exc("OSError", 0, "tmpdir", 0))
              /\ UNCHANGED <<tmpExists, tmpdirsCreated>>
    /\ UNCHANGED <<envVars, outDirExists, outFiles, img, loopVars, iconsetExists,
                   iconset, stdout, stderr, written, iconutilRc, runVars,
                   iconutilCalls>>

\* formatter.py:88-89
MakeIconset ==
    /\ pc = "iconset_mkdir"
    /\ \E ok \in BOOLEAN :
         IF ok
         THEN /\ iconsetExists' = TRUE
              /\ pc' = "icns_png"
              /\ UNCHANGED error
         ELSE /\ RaiseInWith(Exc("OSError", 0, "iconset_mkdir", 0))
              /\ UNCHANGED iconsetExists
    /\ UNCHANGED <<envVars, outDirExists, outFiles, img, loopVars, tmpExists, iconset,
                   stdout, stderr, mainStatus, written, iconutilRc, runVars,
                   iconutilCalls, tmpdirsCreated>>

\* formatter.py:91-94: the loop head, the plain raster of one size and the
\* test that decides whether its @2x raster follows.
WriteIconsetPng ==
    /\ pc = "icns_png"
    /\ IF icnsIdx > Len(icns_sizes)
       THEN /\ pc' = "iconutil"
            /\ UNCHANGED <<iconset, icnsIdx, error>>
       ELSE \E ok \in BOOLEAN :
              IF ok
              THEN LET w == icns_sizes[icnsIdx][1]
                       h == icns_sizes[icnsIdx][2]
                       resized == resize_image(img, <<w, h>>)
                   IN  /\ iconset' = WriteFile(iconset, IconsetName(w, h), PngFile(resized))
                       /\ IF Wants2x(w)
                          THEN pc' = "icns_2x" /\ UNCHANGED icnsIdx
                          ELSE pc' = "icns_png" /\ icnsIdx' = icnsIdx + 1
                       /\ UNCHANGED error
              ELSE /\ RaiseInWith(Exc("OSError", 0, "icns_png", icnsIdx))
                   /\ UNCHANGED <<iconset, icnsIdx>>
    /\ UNCHANGED <<envVars, outDirExists, outFiles, img, pngIdx, tmpExists,
                   iconsetExists, stdout, stderr, mainStatus, written, iconutilRc,
                   runVars, iconutilCalls, tmpdirsCreated>>

\* formatter.py:95-96
WriteIconset2x ==
    /\ pc = "icns_2x"
    /\ \E ok \in BOOLEAN :
         IF ok
         THEN LET w == icns_sizes[icnsIdx][1]
                  h == icns_sizes[icnsIdx][2]
                  resized_2x == resize_image(img, <<w * 2, h * 2>>)
              IN  /\ iconset' = WriteFile(iconset, IconsetName2x(w, h), PngFile(resized_2x))
                  /\ icnsIdx' = icnsIdx + 1
                  /\ pc' = "icns_png"
                  /\ UNCHANGED error
         ELSE /\ RaiseInWith(Exc("OSError", 0, "icns_2x", icnsIdx))
              /\ UNCHANGED <<iconset, icnsIdx>>
    /\ UNCHANGED <<envVars, outDirExists, outFiles, img, pngIdx, tmpExists,
                   iconsetExists, stdout, stderr, mainStatus, written, iconutilRc,
                   runVars, iconutilCalls, tmpdirsCreated>>

\* What iconutil -c icns leaves at its -o path: one container holding the
\* rasters of the iconset.
IcnsFile(set) ==
    [fmt |-> "ICNS", size |-> <<0, 0>>, mode |-> "RGBA",
     frames |-> { set[n].size : n \in DOMAIN set }]


\* The call without check=True: the exit status is ignored.
RunIconutilUnchecked ==
    /\ pc = "iconutil"
    /\ \E started \in BOOLEAN, rc \in 0..MaxRc :
         IF ~started
         THEN /\ RaiseInWith(Exc("OSError", 0, "iconutil_start", 0))
              /\ UNCHANGED <<outFiles, written, iconutilRc, iconutilCalls>>
         ELSE /\ iconutilRc' = rc
              /\ iconutilCalls' = iconutilCalls + 1
              /\ IF rc = 0
                 THEN /\ outFiles' = WriteFile(outFiles, icns_name, IcnsFile(iconset))
                      /\ written' = Append(written, icns_name)
                 ELSE UNCHANGED <<outFiles, written>>
              /\ pc' = "with_exit"
              /\ UNCHANGED error
    /\ UNCHANGED <<envVars, outDirExists, img, loopVars, tmpVars, stdout, stderr,
                   mainStatus, runVars, tmpdirsCreated>>

\* formatter.py:97-100: the blocking call of the packaging tool.  The tool
\* may fail to start (not found, not executable: an OSError and no exit
\* status); when it ran, check=True turns a non-zero exit status into
\* CalledProcessError(returncode).
RunIconutil ==
    /\ pc = "iconutil"
    /\ \E started \in BOOLEAN, rc \in 0..MaxRc :
         IF ~started
         THEN /\ RaiseInWith(Exc("OSError", 0, "iconutil_start", 0))
              /\ UNCHANGED <<outFiles, written, iconutilRc, iconutilCalls>>
         ELSE /\ iconutilRc' = rc
              /\ iconutilCalls' = iconutilCalls + 1
              /\ IF rc = 0
                 THEN /\ outFiles' = WriteFile(outFiles, icns_name, IcnsFile(iconset))
                      /\ written' = Append(written, icns_name)
                      /\ pc' = "with_exit"
                      /\ UNCHANGED error
                 ELSE /\ RaiseInWith(Exc("CalledProcessError", rc, "iconutil", 0))
                      /\ UNCHANGED <<outFiles, written>>
    /\ UNCHANGED <<envVars, outDirExists, img, loopVars, tmpVars, stdout, stderr,
                   mainStatus, runVars, tmpdirsCreated>>

\* formatter.py:87: leaving the with block, normally or by an exception,
\* removes the temporary directory and all it holds; an exception then
\* goes on to end the process.
ExitWithManualCleanup ==
    /\ pc = "with_exit"
    /\ IF error = NoError
       THEN /\ tmpExists' = FALSE
            /\ iconsetExists' = FALSE
            /\ iconset' = NoFiles
            /\ pc' = "print_icns"
            /\ UNCHANGED mainStatus
       ELSE /\ mainStatus' = 1
            /\ pc' = "finalize"
            /\ UNCHANGED tmpVars
    /\ UNCHANGED <<envVars, outDirExists, outFiles, img, loopVars, stdout, stderr,
                   error, written, iconutilRc, runVars, iconutilCalls, tmpdirsCreated>>

ExitWith ==
    /\ pc = "with_exit"
    /\ tmpExists' = FALSE
    /\ iconsetExists' = FALSE
    /\ iconset' = NoFiles
    /\ IF error = NoError
       THEN /\ pc' = "print_icns"
            /\ UNCHANGED mainStatus
       ELSE /\ mainStatus' = 1
            /\ pc' = "finalize"
    /\ UNCHANGED <<envVars, outDirExists, outFiles, img, loopVars, stdout, stderr,
                   error, written, iconutilRc, runVars, iconutilCalls, tmpdirsCreated>>

\* formatter.py:101
PrintIcns ==
    /\ pc = "print_icns"
    /\ \E printed \in PrintOutcomes :
         IF printed
         THEN /\ stdout' = Printed("Wrote " \o icns_name)
              /\ pc' = "done"
              /\ UNCHANGED <<error, mainStatus>>
         ELSE /\ Raise(Exc("OSError", 0, "icns_print", 0))
              /\ UNCHANGED stdout
    /\ UNCHANGED <<envVars, outDirExists, outFiles, img, loopVars, tmpVars, stderr,
                   written, iconutilRc, runVars, iconutilCalls, tmpdirsCreated>>

\* formatter.py:105: the last statement; after it main returns and the
\* interpreter goes on to exit with status 0.
PrintDone ==
    /\ pc = "done"
    /\ \E printed \in PrintOutcomes :
         IF printed
         THEN /\ stdout' = Printed("Done.")
              /\ mainStatus' = 0
              /\ pc' = "finalize"
              /\ UNCHANGED error
         ELSE /\ Raise(Exc("OSError", 0, "done_print", 0))
              /\ UNCHANGED stdout
    /\ UNCHANGED <<envVars, outDirExists, outFiles, img, loopVars, tmpVars, stderr,
                   written, iconutilRc, runVars, iconutilCalls, tmpdirsCreated>>

\* The final flush has something to fail on when a stream that is open
\* was handed text: a line of the script or, on sys.stderr, the traceback
\* of the uncaught exception.
FlushCanFail ==
    \/ stdoutOpen /\ stdout # <<>>
    \/ stderrOpen /\ (stderr # <<>> \/ error # NoError)

\* The shutdown that leaves the exit status as the script's code ended,
\* whatever the final flush reports.
FinalizeIgnoringFlush ==
    /\ pc = "finalize"
    /\ pc' = "exited"
    /\ \E ok \in IF FlushCanFail THEN BOOLEAN ELSE {TRUE} :
         /\ flushed' = ok
         /\ exitStatus' = mainStatus
    /\ UNCHANGED <<envVars, outDirExists, outFiles, img, loopVars, tmpVars, stdout,
                   stderr, mainStatus, error, written, iconutilRc, run, prevOut,
                   iconutilCalls, tmpdirsCreated>>

\* formatter.py:108-109: after main() returned, called sys.exit or died of
\* an exception, the interpreter shuts down and flushes sys.stdout and
\* sys.stderr.  A flush that fails (device full, reader gone) makes the
\* exit status 120, whatever it was going to be; otherwise the status is
\* the one the script's code ended with.
Finalize ==
    /\ pc = "finalize"
    /\ pc' = "exited"
    /\ \E ok \in IF FlushCanFail THEN BOOLEAN ELSE {TRUE} :
         /\ flushed' = ok
         /\ exitStatus' = IF ok THEN mainStatus ELSE 120
    /\ UNCHANGED <<envVars, outDirExists, outFiles, img, loopVars, tmpVars, stdout,
                   stderr, mainStatus, error, written, iconutilRc, run, prevOut,
                   iconutilCalls, tmpdirsCreated>>

\* The script is invoked again (formatter.py:7-17 and 108-109 run anew).
\* Nothing of a run survives it but the file system.
NextRun ==
    /\ pc = "exited"
    /\ run < MaxRuns
    /\ run' = run + 1
    /\ prevOut' = IF exitStatus = 0 THEN [ok |-> TRUE, files |-> outFiles] ELSE NoPrev
    /\ pc' = "import"
    /\ img' = NoImage
    /\ pngIdx' = 1
    /\ icnsIdx' = 1
    /\ stdout' = <<>>
    /\ stderr' = <<>>
    /\ mainStatus' = -1
    /\ flushed' = FALSE
    /\ exitStatus' = -1
    /\ error' = NoError
    /\ written' = <<>>
    /\ iconutilRc' = -1
    /\ UNCHANGED <<envVars, outDirExists, outFiles, tmpVars, iconutilCalls,
                   tmpdirsCreated>>

Next ==
    \/ ImportPillow
    \/ CheckSource
    \/ MakeOutputDir
    \/ OpenImage
    \/ NormalizeImage
    \/ WritePng
    \/ WriteIco
    \/ PlatformBranch
    \/ MakeTmpdir
    \/ MakeIconset
    \/ WriteIconsetPng
    \/ WriteIconset2x
    \/ RunIconutil
    \/ ExitWith
    \/ PrintIcns
    \/ PrintDone
    \/ Finalize
    \/ NextRun

Spec == Init /\ [][Next]_vars

----------------------------------------------------------------------------
\* What the properties below speak of.

\* The fourteen file names of the table, in the order the table lists them.
TableNames ==
    << "32x32.png", "128x128.png", "128x128@2x.png", "icon.png",
       "Square30x30Logo.png", "Square44x44Logo.png", "Square71x71Logo.png",
       "Square89x89Logo.png", "Square107x107Logo.png", "Square142x142Logo.png",
       "Square150x150Logo.png", "Square284x284Logo.png", "Square310x310Logo.png",
       "StoreLogo.png" >>

\* The side of each of the fourteen PNG files, in the same order.
TableSides == << 32, 128, 256, 512, 30, 44, 71, 89, 107, 142, 150, 284, 310, 50 >>

\* Every output in program order: the PNG files, icon.ico, icon.icns.
ProgramOrder == TableNames \o << "icon.ico", "icon.icns" >>

IsPrefix(s, t) == Len(s) <= Len(t) /\ s = SubSeq(t, 1, Len(s))

Terminated == pc = "exited"

\* The fourteen PNG files and icon.ico are on disk as this run wrote them.
PngsAndIcoOnDisk ==
    /\ \A k \in 1..14 :
         /\ TableNames[k] \in DOMAIN outFiles
         /\ outFiles[TableNames[k]] =
              [fmt |-> "PNG", size |-> <<TableSides[k], TableSides[k]>>,
               mode |-> "RGBA", frames |-> {}]
    /\ "icon.ico" \in DOMAIN outFiles
    /\ outFiles["icon.ico"].fmt = "ICO"
    /\ Len(written) >= 15
    /\ SubSeq(written, 1, 15) = SubSeq(ProgramOrder, 1, 15)

\* C1: if the source image does not exist when main() starts, the run
\* never gets past the existence check, ends with a non-zero exit status,
\* and at no point of the run has it written a PNG, icon.ico or icon.icns:
\* the output directory holds what it held before the first run.
C1_MissingSourceFailsBeforeAnyWrite ==
    ~srcExists =>
        /\ pc \in {"import", "start", "finalize", "exited"}
        /\ written = <<>>
        /\ outFiles \in {NoFiles, OldFiles}
        /\ tmpdirsCreated = 0
        /\ Terminated => exitStatus > 0

C1_Witness ==
    /\ ~srcExists
    /\ pillow
    /\ error = NoError
    /\ Terminated
    /\ exitStatus = 1
    /\ stderr # <<>>
    /\ run = 2

\* C2: in every terminal state of a run the temporary staging directory
\* and the icon.iconset inside it do not exist, whether the macOS step
\* ended by packaging success, by the packaging tool exiting non-zero or
\* by an error while the staging rasters were written.
C2_StagingGoneWhenTerminated ==
    Terminated =>
        /\ ~tmpExists
        /\ ~iconsetExists
        /\ iconset = NoFiles

\* A second run on macOS that died while writing an @2x staging raster,
\* after a first run whose packaging succeeded.
C2_Witness ==
    /\ platform = "darwin"
    /\ Terminated
    /\ run = 2
    /\ prevOut.ok
    /\ error.step = "icns_2x"
    /\ tmpdirsCreated = 2
    /\ ~tmpExists

\* C3: on macOS, when the packaging tool exits with a non-zero status the
\* run ends with an error that carries that status and with a non-zero
\* exit status, and the fourteen PNG files and icon.ico written earlier in
\* the run are still on disk.
C3_IconutilFailureKeepsEarlierFiles ==
    (Terminated /\ iconutilRc > 0) =>
        /\ platform = "darwin"
        /\ error.kind = "CalledProcessError"
        /\ error.returncode = iconutilRc
        /\ exitStatus > 0
        /\ PngsAndIcoOnDisk
        /\ Len(written) = 15

C3_Witness ==
    /\ Terminated
    /\ iconutilRc = 2
    /\ error.returncode = 2
    /\ exitStatus = 1
    /\ PngsAndIcoOnDisk

\* On a platform that is not macOS nothing of the icns step ever happens:
\* no staging directory, no call of the packaging tool, no icon.icns
\* written, in any run.
NoIcnsStep ==
    /\ tmpdirsCreated = 0
    /\ ~tmpExists
    /\ iconutilCalls = 0
    /\ iconutilRc = -1
    /\ "icon.icns" \notin Range(written)
    /\ "icon.icns" \in DOMAIN outFiles => outFiles["icon.icns"] = Stale
    /\ "Wrote icon.icns" \notin Range(stdout)

\* The run is over and its PNG and icon.ico steps succeeded, the line each
\* of them prints included.
PngAndIcoStepsSucceeded ==
    /\ Terminated
    /\ Len(written) = 15
    /\ error.step # "ico_print"

\* C4 as stated: when the platform is not macOS, no run ever creates a
\* staging directory, invokes the packaging tool or writes icon.icns, and
\* every run whose PNG and icon.ico steps succeeded reports the skip and
\* ends with exit status zero; the same holds for a second run.
C4_NonMacSkipsAndExitsZero ==
    platform # "darwin" =>
        /\ NoIcnsStep
        /\ PngAndIcoStepsSucceeded =>
              /\ exitStatus = 0
              /\ "Skipping icon.icns" \in Range(stdout)

\* C4 as amended: when the platform is not macOS, no run ever creates a
\* staging directory, invokes the packaging tool or writes icon.icns, and
\* a run whose PNG and icon.ico steps succeeded goes through the skip
\* branch and nothing else: the only statements left that can fail are the
\* print of the skip notice and the print of "Done.".  Such a run ends
\* with exit status zero exactly when neither print raised and the
\* interpreter's final flush reported no failure; a print that raised
\* gives status 1 and a failed final flush gives 120.  When neither print
\* raised and sys.stdout is open, the skip notice and then "Done." were
\* handed to sys.stdout; the skip notice was not when its print raised.
\* The same holds for a second run.
C4_NonMacSkipsIcns ==
    platform # "darwin" =>
        /\ NoIcnsStep
        /\ PngAndIcoStepsSucceeded =>
              /\ error.step \in {"none", "skip_print", "done_print"}
              /\ exitStatus \in {0, 1, 120}
              /\ exitStatus = 0 <=> (error = NoError /\ flushed)
              /\ exitStatus = 1 <=> (error # NoError /\ flushed)
              /\ exitStatus = 120 <=> ~flushed
              /\ (error = NoError /\ stdoutOpen) =>
                    /\ "Skipping icon.icns" \in Range(stdout)
                    /\ "Done." \in Range(stdout)
              /\ error.step = "skip_print" => "Skipping icon.icns" \notin Range(stdout)
              /\ error.step = "done_print" => "Skipping icon.icns" \in Range(stdout)

\* A second run off macOS that printed the skip notice and ended with
\* status zero, after a first run that did the same.
C4_Witness ==
    /\ platform = "linux"
    /\ run = 2
    /\ prevOut.ok
    /\ Terminated
    /\ exitStatus = 0
    /\ written[Len(written)] = "icon.ico"
    /\ "Skipping icon.icns" \in Range(stdout)

\* C5: after a successful run the files the run wrote are exactly the
\* fourteen distinct names of the table plus icon.ico, plus icon.icns
\* exactly on macOS; each was written once, and each is on disk with the
\* content of this run, whatever was stored under its name before.
C5_ExactlyTheExpectedFiles ==
    (Terminated /\ exitStatus = 0) =>
        /\ Cardinality(Range(TableNames)) = 14
        /\ Range(written) =
             Range(TableNames) \cup {"icon.ico"}
               \cup (IF platform = "darwin" THEN {"icon.icns"} ELSE {})
        /\ Len(written) = Cardinality(Range(written))
        /\ PngsAndIcoOnDisk
        /\ \A n \in Range(written) : n \in DOMAIN outFiles /\ outFiles[n] # Stale

\* A successful run on macOS over a directory that held old icons.
C5_Witness ==
    /\ Terminated
    /\ exitStatus = 0
    /\ run = 1
    /\ platform = "darwin"
    /\ foreign_name \in DOMAIN outFiles
    /\ Len(written) = 16

\* C6: for a source image of any pixel dimensions, the icon.ico a run
\* wrote holds frames of exactly the sizes 16x16, 32x32, 48x48 and
\* 256x256.
C6_IcoHasExactlyFourSizes ==
    "icon.ico" \in Range(written) =>
        outFiles["icon.ico"].frames =
            { <<16, 16>>, <<32, 32>>, <<48, 48>>, <<256, 256>> }

\* C7: on macOS, when the packaging tool is invoked the iconset holds
\* exactly eleven rasters: icon_<s>x<s>.png of s x s pixels for s in
\* 16, 32, 64, 128, 256, 512 and icon_<s>x<s>@2x.png of 2s x 2s pixels for
\* s in 16, 32, 64, 128, 256; 512 has no @2x raster.
C7_IconsetAtInvocation ==
    pc = "iconutil" =>
        /\ DOMAIN iconset =
             { "icon_16x16.png", "icon_32x32.png", "icon_64x64.png",
               "icon_128x128.png", "icon_256x256.png", "icon_512x512.png",
               "icon_16x16@2x.png", "icon_32x32@2x.png", "icon_64x64@2x.png",
               "icon_128x128@2x.png", "icon_256x256@2x.png" }
        /\ Cardinality(DOMAIN iconset) = 11
        /\ \A n \in DOMAIN iconset : iconset[n].fmt = "PNG"
        /\ iconset["icon_16x16.png"].size = <<16, 16>>
        /\ iconset["icon_32x32.png"].size = <<32, 32>>
        /\ iconset["icon_64x64.png"].size = <<64, 64>>
        /\ iconset["icon_128x128.png"].size = <<128, 128>>
        /\ iconset["icon_256x256.png"].size = <<256, 256>>
        /\ iconset["icon_512x512.png"].size = <<512, 512>>
        /\ iconset["icon_16x16@2x.png"].size = <<32, 32>>
        /\ iconset["icon_32x32@2x.png"].size = <<64, 64>>
        /\ iconset["icon_64x64@2x.png"].size = <<128, 128>>
        /\ iconset["icon_128x128@2x.png"].size = <<256, 256>>
        /\ iconset["icon_256x256@2x.png"].size = <<512, 512>>

C7_Witness ==
    /\ pc = "iconutil"
    /\ platform = "darwin"
    /\ iconsetExists
    /\ "icon_256x256@2x.png" \in DOMAIN iconset
    /\ "icon_512x512.png" \in DOMAIN iconset

\* C8: when a successful run follows a successful run on the same source
\* and platform, the output directory holds the same file names as after
\* the first, and each file has the same format, pixel dimensions, frames
\* and color mode as after the first.
C8_SecondRunSameShape ==
    (Terminated /\ exitStatus = 0 /\ prevOut.ok) =>
        /\ DOMAIN outFiles = DOMAIN prevOut.files
        /\ \A n \in DOMAIN outFiles :
             /\ outFiles[n].fmt = prevOut.files[n].fmt
             /\ outFiles[n].size = prevOut.files[n].size
             /\ outFiles[n].mode = prevOut.files[n].mode
             /\ outFiles[n].frames = prevOut.files[n].frames

C8_Witness ==
    /\ Terminated
    /\ exitStatus = 0
    /\ prevOut.ok
    /\ run = 2
    /\ platform = "darwin"
    /\ Len(written) = 16
    /\ Cardinality(DOMAIN outFiles) = 17

\* The working copy has been through the color-mode normalization.
Normalized == img # NoImage /\ pc # "normalize"

\* C9 as stated: the normalization converts the working copy only when the
\* source's mode lacks an alpha channel; a source whose mode has one (RGBA,
\* LA) keeps its mode.
C9_ConvertsOnlyWithoutAlpha ==
    Normalized =>
        /\ img.conv = 1 <=> ~HasAlpha(srcMode)
        /\ HasAlpha(srcMode) => img.mode = srcMode

\* C9 as amended: the normalization converts the working copy exactly when
\* the source's mode is not RGBA, alpha-bearing modes such as LA included;
\* the working copy is RGBA afterwards, and only an RGBA source is passed
\* through unconverted.
C9_ConvertsUnlessRGBA ==
    Normalized =>
        /\ img.mode = "RGBA"
        /\ img.size = srcSize
        /\ img.conv = 1 <=> srcMode # "RGBA"
        /\ img.conv = 0 <=> srcMode = "RGBA"

C9_Witness ==
    /\ Normalized
    /\ srcMode = "LA"
    /\ img.mode = "RGBA"
    /\ img.conv = 1

\* The number of outputs written by the statements that precede the one
\* that raised e: a save that raises has not written its file, a print
\* that raises comes after the save of its file.
WrittenBefore(e) ==
    CASE e.step \in {"none", "import_print", "exists", "check_print", "mkdir",
                     "open"} -> 0
      [] e.step = "png" -> e.idx - 1
      [] e.step = "png_print" -> e.idx
      [] e.step = "ico" -> 14
      [] e.step \in {"ico_print", "skip_print", "tmpdir", "iconset_mkdir", "icns_png",
                     "icns_2x", "iconutil_start", "iconutil"} -> 15
      [] e.step = "icns_print" -> 16
      [] e.step = "done_print" -> IF platform = "darwin" THEN 16 ELSE 15

\* C10 as stated: the steps run in program order: what a run has written
\* is at every moment an initial part of the sequence PNG files (in table
\* order), icon.ico, icon.icns; "Done." is printed only by a run that wrote
\* all fourteen PNG files and icon.ico and, on macOS, whose packaging tool
\* exited zero, and never by a run that ends with a non-zero exit status;
\* a run that fails has written exactly the outputs of the statements
\* before the failing one.
C10_DoneNeverWithNonZeroExit ==
    /\ IsPrefix(written, ProgramOrder)
    /\ "Done." \in Range(stdout) =>
         /\ PngsAndIcoOnDisk
         /\ platform = "darwin" => (iconutilRc = 0 /\ Len(written) = 16)
    /\ (Terminated /\ exitStatus # 0) =>
         /\ "Done." \notin Range(stdout)
         /\ Len(written) = WrittenBefore(error)

\* C10 as amended: the steps run in program order: what a run has written
\* is at every moment an initial part of the sequence PNG files (in table
\* order), icon.ico, icon.icns; "Done." is printed only as the last line
\* of a run whose main() returns: one that raised nothing, wrote all
\* fourteen PNG files and icon.ico and, on macOS, whose packaging tool
\* exited zero.  It is never printed by a run that ends by sys.exit or by
\* an uncaught exception, and such a run ends with a non-zero status
\* having written exactly the outputs of the statements before the failing
\* one.  A run whose main() returns can still end with a non-zero status:
\* 120, exactly when the interpreter's final flush fails, and it has
\* written every file all the same.
C10_ProgramOrderAndDone ==
    /\ IsPrefix(written, ProgramOrder)
    /\ "Done." \in Range(stdout) =>
         /\ pc \in {"finalize", "exited"}
         /\ error = NoError
         /\ mainStatus = 0
         /\ stdout[Len(stdout)] = "Done."
    /\ mainStatus = 0 =>
         /\ PngsAndIcoOnDisk
         /\ platform = "darwin" => (iconutilRc = 0 /\ Len(written) = 16)
    /\ (Terminated /\ mainStatus = 0) =>
         /\ exitStatus \in {0, 120}
         /\ exitStatus = 120 <=> ~flushed
    /\ (Terminated /\ mainStatus # 0) =>
         /\ exitStatus \in {1, 120}
         /\ exitStatus = 120 <=> ~flushed
         /\ "Done." \notin Range(stdout)
         /\ Len(written) = WrittenBefore(error)

\* A run that died on the seventh PNG file.
C10_Witness ==
    /\ Terminated
    /\ exitStatus = 1
    /\ error.step = "png"
    /\ error.idx = 7
    /\ Len(written) = 6
    /\ "Wrote Square44x44Logo.png" \in Range(stdout)

=============================================================================
